---------------------------- MODULE Spec2Model ----------------------------
(***************************************************************************)
(* Model of pump_watcher.py: the AbstractPump monitor (event debounce and  *)
(* fan-out to the registered loggers) and the synthetic sample generator   *)
(* gen_random_samples.                                                     *)
(*                                                                         *)
(* The specifications defined:                                             *)
(*   Spec     the monitor: any interleaving of add_listener() and event()  *)
(*            calls, each running to completion, sinks allowed to raise;   *)
(*   SpecGen  one call of gen_random_samples(length), one action per       *)
(*            statement group of its loop;                                 *)
(*   SpecGenFair  the same with fair random draws (SpecGenUnfair: without); *)
(*   SpecMain the main program, from the parsed arguments to the exit of   *)
(*            the process, with an interrupt arriving at any point;        *)
(*   SpecConc the monitor called from two threads, event() interleaved at  *)
(*            statement granularity (the class holds no lock).             *)
(***************************************************************************)
EXTENDS Integers, Sequences, FiniteSets, TLC

(***************************************************************************)
(* Bounds of the model.                                                    *)
(***************************************************************************)
MaxListeners == 3      \* add_listener() calls explored
MaxEvents == 2         \* event() calls explored
MaxLength == 3         \* largest `length` passed to gen_random_samples
EdgeWidth == 0         \* random.randint(a, b) is explored on the EdgeWidth+1
                       \* smallest and EdgeWidth+1 largest values of a..b
MaxDays == 2           \* returns of time.sleep(86400) explored

(***************************************************************************)
(* Program constants.                                                      *)
(***************************************************************************)
PUMP_ON == 1
PUMP_OFF == 0
UNKNOWN == -1          \* what the default get_status returns
None == -2             \* Python's None: a value equal to no status

\* The sink objects that can be registered; NoSink is an empty (falsy)
\* entry of the loggers list, i.e. None.
NoSink == 0
Sinks == {1, 2}

\* What get_status can return: the default implementation returns -1, the
\* hardware subclasses override it to return the pin level.
Statuses == {PUMP_ON, PUMP_OFF, UNKNOWN}

VARIABLES
    loggers,       \* self.loggers: sequence of sinks, in registration order
    prev_status,   \* self.prev_status
    trace,         \* history: one record per completed event() invocation
    gpc,           \* gen_random_samples: position in the function
    length,        \* gen_random_samples: the argument
    start,         \* history: the clock read by utcnow() at line 72
    ts,            \* gen_random_samples: the running clock
    sample_id,     \* gen_random_samples: the running sample id
    data,          \* gen_random_samples: the list being built
    event,         \* gen_random_samples: the last candidate drawn
    result,        \* gen_random_samples: the returned list
    mpc,           \* main program: position
    args,          \* main program: the parsed command line
    all_loggers,   \* main program: the loggers set up at lines 142-155
    registered,    \* main program: loggers handed to add_listener so far
    pump,          \* main program: the pump monitor, NoPump before line 160
    cleanups,      \* history: calls of pump.cleanup()
    days,          \* history: returns of time.sleep(86400)
    tpc,           \* per thread: position inside event(); "idle" before the
                   \* thread's call of event(), "done" after it
    tstatus,       \* per thread: the local variable status of event()
    tidx,          \* per thread: entries of self.loggers the loop has visited
    calls,         \* history: the log() calls made by the threads, in order
    overlap,       \* history: an event() began while another was in progress
    anyRaised      \* history: some log() call raised

monVars == <<loggers, prev_status, trace>>
genVars == <<gpc, length, start, ts, sample_id, data, event, result>>
mainVars == <<mpc, args, all_loggers, registered, pump, cleanups, days>>
concVars == <<tpc, tstatus, tidx, calls, overlap, anyRaised>>
vars == <<loggers, prev_status, trace, gpc, length, start, ts, sample_id,
          data, event, result, mpc, args, all_loggers, registered, pump,
          cleanups, days, tpc, tstatus, tidx, calls, overlap, anyRaised>>

(***************************************************************************)
(* AbstractPump                                                            *)
(***************************************************************************)

\* line 36: `if status == self.prev_status: return` -- the fan-out runs
\* when the comparison fails.
ChangedAlways(status, prev) == TRUE
Changed(status, prev) == status # prev

\* line 41: `if l:` -- an empty logger is falsy.
TruthyAll(l) == TRUE
Truthy(l) == l # NoSink

\* line 40: `for l in self.loggers` visits the list positions in order.
IterOrderReversed(ls) == [i \in 1..Len(ls) |-> Len(ls) + 1 - i]
IterOrderDistinct(ls) ==
    SelectSeq([i \in 1..Len(ls) |-> i],
              LAMBDA p : \A q \in 1..(p - 1) : ls[q] # ls[p])
IterOrder(ls) == [i \in 1..Len(ls) |-> i]

\* line 42: the argument handed to log() is the one-element list [status].
LogArg(status) == <<status>>

\* Whether the call l.log(...) made for list position p raises: calling
\* log on None raises AttributeError; a real sink raises when its
\* transport fails, which is the input f (the position whose sink fails in
\* this invocation, 0 for none).
Raises(l, p, f) == l = NoSink \/ p = f

\* lines 40-42: the log() calls one fan-out makes, in the order made.  The
\* loop has no exception handler, so the first call that raises is the last
\* one made.  order is the sequence of positions still to visit from k on.
RECURSIVE DispatchCatching(_, _, _, _, _)
DispatchCatching(ls, order, k, status, f) ==
    IF k > Len(order) THEN <<>>
    ELSE LET p == order[k]
             l == ls[p]
         IN  IF ~(l # NoSink) THEN DispatchCatching(ls, order, k + 1, status, f)
             ELSE <<[pos |-> p, sink |-> l, arg |-> <<status>>,
                     raised |-> (l = NoSink \/ p = f)]>>
                  \o DispatchCatching(ls, order, k + 1, status, f)

RECURSIVE Dispatch(_, _, _, _, _)
Dispatch(ls, order, k, status, f) ==
    IF k > Len(order) THEN <<>>
    ELSE LET p == order[k]
             l == ls[p]
         IN  IF ~Truthy(l) THEN Dispatch(ls, order, k + 1, status, f)
             ELSE IF Raises(l, p, f)
                  THEN <<[pos |-> p, sink |-> l, arg |-> LogArg(status),
                          raised |-> TRUE]>>
                  ELSE <<[pos |-> p, sink |-> l, arg |-> LogArg(status),
                          raised |-> FALSE]>>
                       \o Dispatch(ls, order, k + 1, status, f)

\* Whether the fan-out that made the calls cs ended with an exception.
Raised(cs) == cs # <<>> /\ cs[Len(cs)].raised

\* line 43: `self.prev_status = status` is the statement after the loop; it
\* is reached when the comparison failed and no log() call raised.
Commit(prev, status, changed, raised) ==
    IF changed /\ ~raised THEN status ELSE prev

\* The sink positions whose log() call may fail in one invocation.
FailChoices(ls) == {0} \cup {p \in 1..Len(ls) : ls[p] \in Sinks}

\* lines 16-26: __init__
MonitorInit ==
    /\ loggers = <<>>
    /\ prev_status = None
    /\ trace = <<>>

\* lines 28-43: event(), run to completion (or to the exception that ends it)
Event ==
    /\ Len(trace) < MaxEvents
    /\ \E status \in Statuses, f \in FailChoices(loggers) :
         LET changed == Changed(status, prev_status)
             cs == IF changed
                   THEN Dispatch(loggers, IterOrder(loggers), 1, status, f)
                   ELSE <<>>
             after == Commit(prev_status, status, changed, Raised(cs))
         IN  /\ ~changed => f = 0
             /\ prev_status' = after
             /\ trace' = Append(trace,
                   [status |-> status, prev |-> prev_status,
                    fanout |-> changed, calls |-> cs,
                    raised |-> Raised(cs), after |-> after,
                    loggers |-> loggers, fail |-> f])
    /\ UNCHANGED loggers
    /\ UNCHANGED <<genVars, mainVars, concVars>>

\* line 57: self.loggers.append(new_logger)
Prepended(ls, new_logger) == <<new_logger>> \o ls
Appended(ls, new_logger) == Append(ls, new_logger)

\* lines 50-57: add_listener()
AddListener ==
    /\ Len(loggers) < MaxListeners
    /\ \E new_logger \in Sinks \cup {NoSink} :
         loggers' = Appended(loggers, new_logger)
    /\ UNCHANGED <<prev_status, trace>>
    /\ UNCHANGED <<genVars, mainVars, concVars>>

(***************************************************************************)
(* gen_random_samples                                                      *)
(***************************************************************************)

\* The clocks utcnow() is explored on (line 72): whole seconds counted
\* from an arbitrary origin, and the microsecond field of the datetime.
StartClocks == {[sec |-> 0, usec |-> 0], [sec |-> 59, usec |-> 999999]}

\* random.random() returns a float in [0.0, 1.0); it is explored in tenths.
RandomTenths == 0..9

\* random.randint(a, b) returns an integer N with a <= N <= b, both ends
\* included; the values within EdgeWidth of either end are explored.
RandInt(a, b) == {n \in a..b : n <= a + EdgeWidth \/ n >= b - EdgeWidth}

\* lines 101-112: gen_random_event(threshold), threshold and r in tenths
gen_random_event(threshold, r) ==
    IF r >= threshold THEN PUMP_ON ELSE PUMP_OFF

\* lines 115-117: gen_random_event(0.2)
gen_mainly_on(r) == gen_random_event(2, r)

\* lines 120-122: gen_random_event(0.8)
gen_mainly_off(r) == gen_random_event(8, r)

\* ts + datetime.timedelta(0, seconds): whole seconds are added, the
\* microsecond field is kept.
AddSeconds(t, seconds) == [sec |-> t.sec + seconds, usec |-> t.usec]

\* ts.strftime("%Y-%m-%d %H:%M:%S UTC"): the text names the whole second
\* and drops the microseconds; it is represented by that second.
strftime(t) == t.sec

\* line 80: timedelta(0, 45 * 60) + timedelta(0, randint(0, 100 * 60))
OnAdvanceNoDwell(d) == d
OnAdvance(d) == 45 * 60 + d

\* line 90: timedelta(0, randint(0, 10 * 60))
OffAdvance(d) == d

\* lines 78 and 88: `if event == PUMP_ON`, `if event == PUMP_OFF` -- the
\* candidate e drawn for a slot is accepted when it is the slot's state.
AcceptedAlways(e, slot) == TRUE
AcceptedNever(e, slot) == FALSE
Accepted(e, slot) == e = slot

\* lines 82 and 92: sample_id += 1
NextIdSkipping(id) == id + 2
NextId(id) == id + 1

\* line 98: data[:length], for length >= 0
SliceNone(d, n) == d
Slice(d, n) == SubSeq(d, 1, IF n < Len(d) THEN n ELSE Len(d))

\* The generator is not running.
GenIdle ==
    /\ gpc = "idle"
    /\ length = 0
    /\ start = [sec |-> 0, usec |-> 0]
    /\ ts = [sec |-> 0, usec |-> 0]
    /\ sample_id = 1
    /\ data = <<>>
    /\ event = None
    /\ result = <<>>

\* lines 63-73: gen_random_samples is called with some length >= 0
GenStart ==
    /\ gpc = "while"
    /\ length \in 0..MaxLength
    /\ start \in StartClocks
    /\ ts = start
    /\ sample_id = 1
    /\ data = <<>>
    /\ event = None
    /\ result = <<>>

\* line 74: the loop condition `sample_id <= length`
LoopContinuesStrict(id, n) == id < n
LoopContinues(id, n) == id <= n

\* line 74: while sample_id <= length
GenWhile ==
    /\ gpc = "while"
    /\ gpc' = IF LoopContinues(sample_id, length) THEN "on" ELSE "return"
    /\ UNCHANGED <<length, start, ts, sample_id, data, event, result>>
    /\ UNCHANGED <<monVars, mainVars, concVars>>

\* lines 76-85: the PUMP_ON slot
GenOn ==
    /\ gpc = "on"
    /\ \E r \in RandomTenths, d \in RandInt(0, 100 * 60) :
         LET e == gen_mainly_on(r)
             t == AddSeconds(ts, OnAdvance(d))
         IN  /\ event' = e
             /\ IF Accepted(e, PUMP_ON)
                THEN /\ ts' = t
                     /\ data' = Append(data, <<strftime(t), sample_id, e>>)
                     /\ sample_id' = NextId(sample_id)
                ELSE UNCHANGED <<ts, data, sample_id>>
    /\ gpc' = "off"
    /\ UNCHANGED <<length, start, result>>
    /\ UNCHANGED <<monVars, mainVars, concVars>>

\* lines 87-95: the PUMP_OFF slot
GenOff ==
    /\ gpc = "off"
    /\ \E r \in RandomTenths, d \in RandInt(0, 10 * 60) :
         LET e == gen_mainly_off(r)
             t == AddSeconds(ts, OffAdvance(d))
         IN  /\ event' = e
             /\ IF Accepted(e, PUMP_OFF)
                THEN /\ ts' = t
                     /\ data' = Append(data, <<strftime(t), sample_id, e>>)
                     /\ sample_id' = NextId(sample_id)
                ELSE UNCHANGED <<ts, data, sample_id>>
    /\ gpc' = "while"
    /\ UNCHANGED <<length, start, result>>
    /\ UNCHANGED <<monVars, mainVars, concVars>>

\* line 98: return data[:length]
GenReturn ==
    /\ gpc = "return"
    /\ result' = Slice(data, length)
    /\ gpc' = "done"
    /\ UNCHANGED <<length, start, ts, sample_id, data, event>>
    /\ UNCHANGED <<monVars, mainVars, concVars>>

(***************************************************************************)
(* The main program (lines 125-185)                                        *)
(***************************************************************************)

\* The value of `pump` before a monitor is constructed.
NoPump == "None"

\* The command lines explored: each optional flag given or absent (the
\* required pin does not influence the control flow).
ArgSets ==
    [thing_speak_api : BOOLEAN, healthchecks_url : BOOLEAN,
     gpio_lib : {"None", "RPi.GPIO", "wiringpi"}]

\* lines 141-155: the first logger is the ThingSpeak logger or the console
\* logger (sink 1), the second, when a URL is given, the HealthChecks
\* logger (sink 2).
SetupLoggers(a) == <<1>> \o (IF a.healthchecks_url THEN <<2>> ELSE <<>>)

\* lines 160-174: the class of the monitor constructed
PumpClass(a) ==
    IF a.gpio_lib = "RPi.GPIO" THEN "RpiGpioPump"
    ELSE IF a.gpio_lib = "wiringpi" THEN "WiringPiPump"
    ELSE "AbstractPump"

\* The main program is not running.
MainIdle ==
    /\ mpc = "idle"
    /\ args = [thing_speak_api |-> FALSE, healthchecks_url |-> FALSE,
               gpio_lib |-> "None"]
    /\ all_loggers = <<>>
    /\ registered = 0
    /\ pump = NoPump
    /\ cleanups = 0
    /\ days = 0

\* lines 125-139: the arguments are parsed
MainStart ==
    /\ mpc = "setup"
    /\ args \in ArgSets
    /\ all_loggers = <<>>
    /\ registered = 0
    /\ pump = NoPump
    /\ cleanups = 0
    /\ days = 0

\* lines 141-157: the loggers are set up
MainSetup ==
    /\ mpc = "setup"
    /\ all_loggers' = SetupLoggers(args)
    /\ mpc' = "create"
    /\ UNCHANGED <<args, registered, pump, cleanups, days>>
    /\ UNCHANGED <<monVars, genVars, concVars>>

\* lines 159-174: the pump monitor is constructed
MainCreate ==
    /\ mpc = "create"
    /\ pump' = PumpClass(args)
    /\ mpc' = "register"
    /\ UNCHANGED <<args, all_loggers, registered, cleanups, days>>
    /\ UNCHANGED <<monVars, genVars, concVars>>

\* lines 177-178: one turn of `for logger in all_loggers`, or its end
MainRegister ==
    /\ mpc = "register"
    /\ IF registered < Len(all_loggers)
       THEN /\ loggers' = Appended(loggers, all_loggers[registered + 1])
            /\ registered' = registered + 1
            /\ mpc' = "register"
       ELSE /\ mpc' = "try"
            /\ UNCHANGED <<loggers, registered>>
    /\ UNCHANGED <<args, all_loggers, pump, cleanups, days>>
    /\ UNCHANGED <<prev_status, trace, genVars, concVars>>

\* lines 180-181: the try block is entered
MainTry ==
    /\ mpc = "try"
    /\ mpc' = "sleep"
    /\ UNCHANGED <<args, all_loggers, registered, pump, cleanups, days>>
    /\ UNCHANGED <<monVars, genVars, concVars>>

\* lines 182-183: time.sleep(86400) returns and the loop goes round
MainSleep ==
    /\ mpc = "sleep"
    /\ days < MaxDays
    /\ days' = days + 1
    /\ UNCHANGED <<mpc, args, all_loggers, registered, pump, cleanups>>
    /\ UNCHANGED <<monVars, genVars, concVars>>

\* Whether position pc lies inside the try block of lines 180-183.
InTry(pc) == pc \in {"sleep"}

\* An interrupt (KeyboardInterrupt) or other exception arrives: inside the
\* try block control passes to the finally clause, elsewhere the exception
\* ends the process.
MainInterrupt ==
    /\ mpc \in {"setup", "create", "register", "try", "sleep"}
    /\ mpc' = IF InTry(mpc) THEN "finally" ELSE "exit"
    /\ UNCHANGED <<args, all_loggers, registered, pump, cleanups, days>>
    /\ UNCHANGED <<monVars, genVars, concVars>>

\* lines 184-185: finally: pump.cleanup(), then the process exits
MainFinally ==
    /\ mpc = "finally"
    /\ cleanups' = cleanups + 1
    /\ mpc' = "exit"
    /\ UNCHANGED <<args, all_loggers, registered, pump, days>>
    /\ UNCHANGED <<monVars, genVars, concVars>>

(***************************************************************************)
(* event() called from two threads (lines 28-43, no lock is taken), once   *)
(* by each thread                                                          *)
(***************************************************************************)

Threads == {1, 2}

\* No thread is inside the monitor.
ConcIdle ==
    /\ tpc = [t \in Threads |-> "idle"]
    /\ tstatus = [t \in Threads |-> None]
    /\ tidx = [t \in Threads |-> 0]
    /\ calls = <<>>
    /\ overlap = FALSE
    /\ anyRaised = FALSE

\* Some thread is inside event().
InProgress == \E u \in Threads : tpc[u] \notin {"idle", "done"}

\* lines 33-34: thread t enters event() and reads the status
ConcRead(t) ==
    /\ tpc[t] = "idle"
    /\ \E status \in Statuses : tstatus' = [tstatus EXCEPT ![t] = status]
    /\ tpc' = [tpc EXCEPT ![t] = "compare"]
    /\ overlap' = (overlap \/ InProgress)
    /\ UNCHANGED <<tidx, calls, anyRaised>>
    /\ UNCHANGED <<monVars, genVars, mainVars>>

\* lines 36-38: the comparison with prev_status; return when equal
ConcCompare(t) ==
    /\ tpc[t] = "compare"
    /\ IF Changed(tstatus[t], prev_status)
       THEN /\ tpc' = [tpc EXCEPT ![t] = "loop"]
            /\ tidx' = [tidx EXCEPT ![t] = 0]
       ELSE /\ tpc' = [tpc EXCEPT ![t] = "done"]
            /\ UNCHANGED tidx
    /\ UNCHANGED <<tstatus, calls, overlap, anyRaised>>
    /\ UNCHANGED <<monVars, genVars, mainVars>>

\* lines 40-42: one turn of the loop over self.loggers, or its end.  The
\* list iterator looks at the list as it is at each turn.  A log() call
\* that raises ends the invocation.
ConcLoop(t) ==
    /\ tpc[t] = "loop"
    /\ IF tidx[t] < Len(loggers)
       THEN LET p == tidx[t] + 1
                l == loggers[p]
            IN  IF ~Truthy(l)
                THEN /\ tidx' = [tidx EXCEPT ![t] = p]
                     /\ UNCHANGED <<tpc, calls, anyRaised>>
                ELSE \E f \in {0, p} :
                       LET r == Raises(l, p, f)
                       IN  /\ calls' = Append(calls,
                                  [pos |-> p, sink |-> l,
                                   arg |-> LogArg(tstatus[t]),
                                   raised |-> r, thread |-> t])
                           /\ anyRaised' = (anyRaised \/ r)
                           /\ tidx' = [tidx EXCEPT ![t] = p]
                           /\ tpc' = [tpc EXCEPT
                                        ![t] = IF r THEN "done" ELSE "loop"]
       ELSE /\ tpc' = [tpc EXCEPT ![t] = "commit"]
            /\ UNCHANGED <<tidx, calls, anyRaised>>
    /\ UNCHANGED <<tstatus, overlap>>
    /\ UNCHANGED <<monVars, genVars, mainVars>>

\* line 43: self.prev_status = status
ConcCommit(t) ==
    /\ tpc[t] = "commit"
    /\ prev_status' = tstatus[t]
    /\ tpc' = [tpc EXCEPT ![t] = "done"]
    /\ UNCHANGED <<tstatus, tidx, calls, overlap, anyRaised>>
    /\ UNCHANGED <<loggers, trace, genVars, mainVars>>

\* lines 50-57: add_listener(); as in the main program (lines 177-178) the
\* listeners are registered before the first event is delivered
ConcAddListener ==
    /\ \A t \in Threads : tpc[t] = "idle"
    /\ Len(loggers) < MaxListeners
    /\ \E new_logger \in Sinks \cup {NoSink} :
         loggers' = Appended(loggers, new_logger)
    /\ UNCHANGED <<tpc, tstatus, tidx, calls, overlap, anyRaised>>
    /\ UNCHANGED <<prev_status, trace, genVars, mainVars>>

(***************************************************************************)
(* Specifications                                                          *)
(***************************************************************************)
Init == MonitorInit /\ GenIdle /\ MainIdle /\ ConcIdle

Next == Event \/ AddListener

Spec == Init /\ [][Next]_vars

GenInit == MonitorInit /\ GenStart /\ MainIdle /\ ConcIdle

GenNext == GenWhile \/ GenOn \/ GenOff \/ GenReturn

SpecGen == GenInit /\ [][GenNext]_vars

\* A step that draws a candidate its slot accepts.
GenAccept ==
    \/ gpc = "on" /\ event' = PUMP_ON /\ GenOn
    \/ gpc = "off" /\ event' = PUMP_OFF /\ GenOff

\* The loop test and the return statement are executed when reached (the
\* function waits for nothing), and the random draws are fair:
\* random.random() falls on the accepting side with a fixed positive
\* probability at every draw (0.8 in the ON slot, 0.2 in the OFF slot), so
\* an accepting draw, possible again and again, is not avoided forever.
SpecGenFair ==
    /\ GenInit /\ [][GenNext]_vars
    /\ WF_vars(GenWhile) /\ WF_vars(GenReturn)
    /\ SF_vars(GenAccept)

\* The generator keeps running, with nothing assumed of the draws.
SpecGenUnfair == GenInit /\ [][GenNext]_vars /\ WF_vars(GenNext)

MainInit == MonitorInit /\ GenIdle /\ MainStart /\ ConcIdle

MainNext ==
    \/ MainSetup \/ MainCreate \/ MainRegister \/ MainTry \/ MainSleep
    \/ MainInterrupt \/ MainFinally

SpecMain == MainInit /\ [][MainNext]_vars

ConcNext ==
    \/ \E t \in Threads :
          ConcRead(t) \/ ConcCompare(t) \/ ConcLoop(t) \/ ConcCommit(t)
    \/ ConcAddListener

SpecConc == Init /\ [][ConcNext]_vars

(***************************************************************************)
(* Properties of the monitor (checked under Spec)                          *)
(***************************************************************************)

Invocations == 1..Len(trace)

\* Every log() call made so far, in the order made.
RECURSIVE CallsUpTo(_)
CallsUpTo(n) == IF n = 0 THEN <<>> ELSE CallsUpTo(n - 1) \o trace[n].calls

AllCalls == CallsUpTo(Len(trace))

\* The calls received by sink s, in the order received.
Received(s) == SelectSeq(AllCalls, LAMBDA c : c.sink = s)

\* The positions of the list ls that hold a sink, in registration order.
SinkPositions(ls) ==
    SelectSeq([p \in 1..Len(ls) |-> p], LAMBDA p : ls[p] # NoSink)

\* The invocation i called log([status]) once for every registered sink,
\* in registration order, and no call raised.
FannedOutInOrder(i) ==
    LET t == trace[i]
        sp == SinkPositions(t.loggers)
    IN  /\ ~t.raised
        /\ Len(t.calls) = Len(sp)
        /\ \A k \in 1..Len(sp) :
             /\ t.calls[k].pos = sp[k]
             /\ t.calls[k].sink = t.loggers[sp[k]]
             /\ t.calls[k].arg = <<t.status>>

NoSinkRaised == \A i \in Invocations : ~trace[i].raised

OnOffOnly == \A i \in Invocations : trace[i].status \in {PUMP_ON, PUMP_OFF}

FanOuts == Cardinality({i \in Invocations : trace[i].fanout})

Changes ==
    Cardinality({i \in Invocations :
                   i = 1 \/ trace[i].status # trace[i - 1].status})

\* C1: when every reading is ON or OFF and no sink raises, the number of
\* event() calls that fan out equals the number of readings that differ
\* from the reading before them, the first reading counting as a change; a
\* reading equal to the last-known state makes no log() call, and a fan-out
\* calls every registered sink.
C1_FanOutCount ==
    (NoSinkRaised /\ OnOffOnly) =>
        /\ FanOuts = Changes
        /\ \A i \in Invocations :
             /\ trace[i].status = trace[i].prev => trace[i].calls = <<>>
             /\ trace[i].fanout =>
                  Len(trace[i].calls) = Len(SinkPositions(trace[i].loggers))

C1_Witness ==
    /\ Len(trace) = 2
    /\ NoSinkRaised /\ OnOffOnly
    /\ trace[1].status = trace[2].status
    /\ trace[1].calls # <<>>
    /\ trace[2].calls = <<>>

\* C2: an unknown reading (-1) never changes prev_status and never makes a
\* log() call, whatever prev_status was.
C2_UnknownInert ==
    \A i \in Invocations :
        trace[i].status = UNKNOWN =>
            /\ trace[i].after = trace[i].prev
            /\ trace[i].calls = <<>>

\* C3: when a sink raises during the fan-out of a reading x, prev_status is
\* x after the invocation, and a next invocation reading x does not fan out.
C3_FailureKeepsUpdate ==
    \A i \in Invocations :
        (trace[i].fanout /\ trace[i].raised) =>
            /\ trace[i].after = trace[i].status
            /\ (i < Len(trace) /\ trace[i + 1].status = trace[i].status) =>
                   ~trace[i + 1].fanout

\* C4: no sink receives two consecutive log() calls carrying the same state.
C4_NoBackToBack ==
    \A s \in Sinks :
        LET cs == Received(s)
        IN  \A j \in 1..(Len(cs) - 1) : cs[j].arg # cs[j + 1].arg

\* C5: an invocation that reads a state different from prev_status while no
\* sink fails calls log([state]) exactly once for each registered sink, one
\* call after the other in the order of registration.
C5_FanOutOrder ==
    \A i \in Invocations :
        (trace[i].fanout /\ trace[i].fail = 0) => FannedOutInOrder(i)

C5_Witness ==
    \E i \in Invocations :
        /\ trace[i].fanout /\ trace[i].fail = 0
        /\ Len(trace[i].calls) = 3
        /\ trace[i].calls[1].sink # trace[i].calls[2].sink

\* C6: an empty (None) entry of the loggers list is skipped without raising:
\* on a genuine transition the sinks registered before and after it are
\* each called once in registration order, and prev_status is updated.
C6_EmptySinkSkipped ==
    \A i \in Invocations :
        LET t == trace[i]
        IN  (/\ t.fanout
             /\ t.fail = 0
             /\ \E p \in 1..Len(t.loggers) : t.loggers[p] = NoSink) =>
                /\ \A k \in 1..Len(t.calls) : t.calls[k].sink # NoSink
                /\ FannedOutInOrder(i)
                /\ t.after = t.status

C6_Witness ==
    \E i \in Invocations :
        LET t == trace[i]
        IN  /\ t.fanout /\ t.fail = 0
            /\ t.loggers = <<1, NoSink, 2>>
            /\ Len(t.calls) = 2
            /\ prev_status = t.status

(***************************************************************************)
(* Properties of gen_random_samples (checked under SpecGen)                *)
(***************************************************************************)

\* The fields of an entry [timestamp, sample_id, event] of the list.
Stamp(e) == e[1]
Id(e) == e[2]
State(e) == e[3]

\* Whole seconds between entry i of r and the entry before it, the first
\* entry being measured from the start clock.
Gap(r, i) ==
    Stamp(r[i]) - (IF i = 1 THEN strftime(start) ELSE Stamp(r[i - 1]))

\* Entry i of r is an ON event that follows an OFF event or the start.
OnAfterOff(r, i) ==
    State(r[i]) = PUMP_ON /\ (i = 1 \/ State(r[i - 1]) = PUMP_OFF)

\* Entry i of r is an OFF event that follows an ON event.
OffAfterOn(r, i) ==
    i > 1 /\ State(r[i]) = PUMP_OFF /\ State(r[i - 1]) = PUMP_ON

\* C7: gen_random_samples(length) returns exactly length events whenever
\* it returns, and the empty list for length 0.
C7_ExactLength ==
    gpc = "done" =>
        /\ Len(result) = length
        /\ length = 0 => result = <<>>

C7_Witness ==
    /\ gpc = "done"
    /\ length = 2
    /\ Len(data) = 3
    /\ Len(result) = 2

\* C8: in the returned list the i-th entry has sample id i, and the
\* timestamps never decrease from one entry to the next.
C8_IdsAndOrder ==
    gpc = "done" =>
        \A i \in 1..Len(result) :
            /\ Id(result[i]) = i
            /\ i > 1 => Stamp(result[i - 1]) <= Stamp(result[i])

C8_Witness ==
    /\ gpc = "done"
    /\ Len(result) = 3
    /\ Stamp(result[2]) = Stamp(result[1])
    /\ Stamp(result[3]) > Stamp(result[2])

\* C9: in the returned list an ON event that directly follows an OFF event
\* (or the start) is at least 45 minutes later, and an OFF event that
\* directly follows an ON event is later by a gap g with 0 <= g < 10
\* minutes.
C9_DwellHalfOpen ==
    gpc = "done" =>
        \A i \in 1..Len(result) :
            /\ OnAfterOff(result, i) => Gap(result, i) >= 45 * 60
            /\ OffAfterOn(result, i) =>
                 (0 <= Gap(result, i) /\ Gap(result, i) < 10 * 60)

\* C9 as amended: the gap of an OFF event after an ON event is at most 10
\* minutes, the bound included.
C9_DwellClosed ==
    gpc = "done" =>
        \A i \in 1..Len(result) :
            /\ OnAfterOff(result, i) => Gap(result, i) >= 45 * 60
            /\ OffAfterOn(result, i) =>
                 (0 <= Gap(result, i) /\ Gap(result, i) <= 10 * 60)

C9_Witness ==
    /\ gpc = "done"
    /\ Len(result) = 3
    /\ OnAfterOff(result, 1) /\ OffAfterOn(result, 2) /\ OnAfterOff(result, 3)
    /\ Gap(result, 2) = 10 * 60
    /\ Gap(result, 3) = 45 * 60

\* A step that draws a candidate the slot rejects.
RejectStep ==
    \/ gpc = "on" /\ gpc' = "off" /\ event' # PUMP_ON
    \/ gpc = "off" /\ gpc' = "while" /\ event' # PUMP_OFF

\* C10: a rejected candidate, in the ON slot or in the OFF slot, leaves the
\* running clock, the running sample id and the list unchanged.
C10_RejectIsInert ==
    [][RejectStep => UNCHANGED <<ts, sample_id, data>>]_vars

C10_Witness ==
    /\ gpc = "while"
    /\ event = PUMP_ON
    /\ Len(data) = 1
    /\ State(data[1]) = PUMP_OFF
    /\ sample_id = 2

(***************************************************************************)
(* Properties of the main program (checked under SpecMain)                 *)
(***************************************************************************)

\* C11: once the pump monitor has been constructed, the process never exits
\* without having run pump.cleanup().
C11_ReleaseOnEveryExit ==
    (mpc = "exit" /\ pump # NoPump) => cleanups >= 1

(***************************************************************************)
(* Further properties of the monitor (checked under Spec)                  *)
(***************************************************************************)

\* How many entries of the sequence q satisfy sink = s.
CountCalls(q, s) == Cardinality({k \in 1..Len(q) : q[k].sink = s})

\* How many positions of the list ls hold s.
CountRegistrations(ls, s) == Cardinality({p \in 1..Len(ls) : ls[p] = s})

\* C12: a sink registered k times is kept k times in the list, and on each
\* genuine transition (no sink failing) its log() is called exactly k
\* times, once for each position it is registered at.
C12_DuplicatesFire ==
    \A i \in Invocations :
        (trace[i].fanout /\ trace[i].fail = 0) =>
            \A s \in Sinks :
                /\ CountCalls(trace[i].calls, s)
                     = CountRegistrations(trace[i].loggers, s)
                /\ \A p \in 1..Len(trace[i].loggers) :
                     trace[i].loggers[p] = s =>
                        \E k \in 1..Len(trace[i].calls) :
                            trace[i].calls[k].pos = p

C12_Witness ==
    \E i \in Invocations :
        /\ trace[i].fanout /\ trace[i].fail = 0
        /\ trace[i].loggers = <<1, 1, 1>>
        /\ CountCalls(trace[i].calls, 1) = 3

\* C13: when the sink at position k raises during a fan-out, the invocation
\* ends with that error; the sinks registered before k were each called
\* once, the failing sink was called once, and no sink registered after k
\* was called.
C13_FailureAborts ==
    \A i \in Invocations :
        LET t == trace[i]
            sp == SinkPositions(t.loggers)
            upto == SelectSeq(sp, LAMBDA p : p <= t.fail)
        IN  (t.fanout /\ t.fail # 0) =>
                /\ t.raised
                /\ Len(t.calls) = Len(upto)
                /\ \A k \in 1..Len(upto) :
                     /\ t.calls[k].pos = upto[k]
                     /\ t.calls[k].sink = t.loggers[upto[k]]
                     /\ t.calls[k].raised = (upto[k] = t.fail)

C13_Witness ==
    \E i \in Invocations :
        /\ trace[i].fanout /\ trace[i].fail = 2
        /\ trace[i].loggers = <<1, 2, 1>>
        /\ Len(trace[i].calls) = 2
        /\ trace[i].raised

(***************************************************************************)
(* Further properties of gen_random_samples                                *)
(***************************************************************************)

\* C14: with fair random draws (SpecGenFair) gen_random_samples(length)
\* returns for every length >= 0.  Under SpecGenUnfair the same formula is
\* violated by the execution that rejects every candidate.
C14_Terminates == <>(gpc = "done")

C14_Witness ==
    /\ gpc = "done"
    /\ length = 3
    /\ Len(result) = 3
    /\ State(result[1]) = PUMP_ON
    /\ State(result[2]) = PUMP_ON

\* An entry of the list is complete: a timestamp, a sample id and a state.
Complete(e) ==
    /\ Len(e) = 3
    /\ Stamp(e) \in Nat
    /\ Id(e) \in Nat \ {0}
    /\ State(e) \in {PUMP_ON, PUMP_OFF}

\* What holds of the list at the loop test, at the exit of the loop and at
\* the return.
LoopInvariant ==
    /\ gpc = "while" => Len(data) = sample_id - 1
    /\ \A i \in 1..Len(data) : Complete(data[i])
    /\ gpc \in {"return", "done"} =>
         /\ Len(data) = sample_id - 1
         /\ length >= 1 => Len(data) \in {length, length + 1}
         /\ length = 0 => Len(data) = 0
    /\ gpc = "done" =>
         /\ Len(data) - Len(result) \in {0, 1}
         /\ result = SubSeq(data, 1, Len(result))
         /\ \A i \in 1..Len(result) : Complete(result[i])

\* A slot of an iteration leaves the list as it is or appends one entry.
SlotAppendsAtMostOne ==
    gpc \in {"on", "off"} =>
        \/ data' = data
        \/ /\ Len(data') = Len(data) + 1
           /\ SubSeq(data', 1, Len(data)) = data

\* C15: len(data) = sample_id - 1 at every loop test; each of the two slots
\* of an iteration appends nothing or one complete event, so an iteration
\* appends 0, 1 or 2; at the exit of the loop len(data) is length or
\* length + 1 (for length >= 1), and the returned list is data without at
\* most its last event, every entry complete.
C15_LoopInvariant == []LoopInvariant /\ [][SlotAppendsAtMostOne]_vars

C15_Witness ==
    /\ gpc = "done"
    /\ length = 3
    /\ Len(data) = 4
    /\ Len(result) = 3
    /\ State(data[4]) = PUMP_OFF

\* A step of the ON slot that accepts its candidate.
AcceptOnStep == gpc = "on" /\ gpc' = "off" /\ event' = PUMP_ON

\* The seconds the running clock moves forward in a step.
ClockAdvance == ts'.sec - ts.sec

\* C16: every accepted ON candidate advances the running clock by d seconds
\* with 45 minutes <= d < 145 minutes (extra delay strictly below 6000 s).
C16_AdvanceHalfOpen ==
    [][AcceptOnStep =>
         (45 * 60 <= ClockAdvance /\ ClockAdvance < 45 * 60 + 100 * 60)]_vars

\* C16 as amended: 45 minutes <= d <= 145 minutes, the extra delay being at
\* most 6000 s, the bound included.
C16_AdvanceClosed ==
    [][AcceptOnStep =>
         (45 * 60 <= ClockAdvance /\ ClockAdvance <= 45 * 60 + 100 * 60)]_vars

C16_Witness ==
    /\ gpc = "off"
    /\ event = PUMP_ON
    /\ Len(data) = 1
    /\ ts.sec - start.sec = 45 * 60 + 100 * 60

(***************************************************************************)
(* Properties of the monitor called from two threads (under SpecConc)      *)
(***************************************************************************)

\* The calls received by sink s from the threads, in the order received.
ReceivedConc(s) == SelectSeq(calls, LAMBDA c : c.sink = s)

\* Sink s has received the same argument in two consecutive log() calls.
BackToBack(s) ==
    LET cs == ReceivedConc(s)
    IN  \E j \in 1..(Len(cs) - 1) : cs[j].arg = cs[j + 1].arg

\* Every call so far ran to completion before the next began, and no sink
\* raised.
SerializedNoFailure == ~overlap /\ ~anyRaised

\* C17: when the invocations are serialized and no sink fails, no sink has
\* received the same state in two consecutive log() calls.
C17_SerializedNoDuplicate ==
    SerializedNoFailure => \A s \in Sinks : ~BackToBack(s)

\* C17 as amended: the same, for every sink that is registered once;
\* interleaved invocations can reach the duplicate (C17_Witness).
C17_SerializedNoDuplicateOnce ==
    SerializedNoFailure =>
        \A s \in Sinks :
            CountRegistrations(loggers, s) = 1 => ~BackToBack(s)

C17_Witness ==
    /\ overlap /\ ~anyRaised
    /\ loggers = <<1>>
    /\ Len(calls) = 2
    /\ calls[1].arg = calls[2].arg
    /\ calls[1].thread # calls[2].thread
    /\ \A t \in Threads : tpc[t] = "done"

(***************************************************************************)
(* Properties of add_listener (checked under Spec)                         *)
(***************************************************************************)

\* A step that changes the list of sinks: a call of add_listener.
AddStep == loggers' # loggers

\* add_listener appends one entry and touches nothing else: prev_status is
\* kept, no invocation of event() and so no log() call is made, and the
\* entries registered before stay where they were.
AddOnlyAppends ==
    AddStep =>
        /\ prev_status' = prev_status
        /\ trace' = trace
        /\ Len(loggers') = Len(loggers) + 1
        /\ SubSeq(loggers', 1, Len(loggers)) = loggers

\* Every log() call belongs to an invocation that read a state different
\* from prev_status, and goes to an entry registered before that
\* invocation: registering a sink tells it nothing.
CallsOnlyOnChange ==
    \A i \in Invocations :
        \A k \in 1..Len(trace[i].calls) :
            /\ trace[i].status # trace[i].prev
            /\ trace[i].calls[k].pos <= Len(trace[i].loggers)
            /\ trace[i].calls[k].arg = <<trace[i].status>>

\* C18: add_listener only appends to the sink list (prev_status unchanged,
\* no sink invoked, existing entries and their order preserved), so a sink
\* registered after a transition receives its first log() call at the next
\* genuine change of state.
C18_AddListenerFrame == [][AddOnlyAppends]_vars /\ []CallsOnlyOnChange

C18_Witness ==
    /\ Len(trace) = 2
    /\ trace[1].loggers = <<1>>
    /\ trace[1].after = PUMP_ON
    /\ trace[2].loggers = <<1, 2>>
    /\ trace[2].status = PUMP_OFF
    /\ Len(Received(2)) = 1
    /\ Received(2)[1].arg = <<PUMP_OFF>>

=============================================================================
